---- MODULE Spec2Model ----
(***************************************************************************)
(* A state-machine model of the smart-invoice backend: the rate card, the  *)
(* pricing of extracted work items (build_invoice_from_parsed), invoice    *)
(* persistence and numbering (save_invoice), recurring materialisation,    *)
(* payments and e-mail sending.                                            *)
(*                                                                         *)
(* Number representation.  Python Decimal values are exact; they are kept  *)
(* as scaled integers:                                                     *)
(*   - a rate, and every value read back from a Numeric(x, 2) column, is   *)
(*     a number of cents;                                                  *)
(*   - a quantity is a number of hundredths of a unit;                     *)
(*   - a tax rate is a number of ten-thousandths (Numeric(5, 4));          *)
(*   - an in-memory amount of InvoiceData (line_total, subtotal, taxes,    *)
(*     total) is a number of 1/10000 of the currency unit ("e4"), the      *)
(*     exact product hundredths * cents.                                   *)
(* An optional value is <<>> (None) or <<v>>.                              *)
(* A key "category.name" is the pair <<category, name>>.                   *)
(***************************************************************************)
EXTENDS Integers, Sequences, FiniteSets, TLC

VARIABLES
    year,        \* datetime.now().year, the calendar year of the wall clock
    user,        \* the users table: <<>> or <<the demo user's row>>
    rate_items,  \* the rate_items table, in insertion order; id = position
    clients,     \* the clients table, in insertion order; id = position
    invoices,    \* the invoices table with its line items, in created_at order
    schedules,   \* the schedule dicts returned by create_recurring_invoice
    last,        \* the outcome of the last request (its response or error)
    extraction,  \* the pricing scenario's input: the ParsedInvoice that
                 \* parse_work_description returned for the text being priced
    inflight     \* the requests that have read their rows and not yet
                 \* committed, each with what its session holds in memory

vars == <<year, user, rate_items, clients, invoices, schedules, last, extraction,
         inflight>>

None == <<>>
Some(x) == <<x>>

----------------------------------------------------------------------------
(* Bounds of the model.                                                    *)

MaxRateItems == 2
MaxItems == 2
MaxInvoices == 2
MaxPriced == 1
MaxClients == 1
MaxSchedules == 1
MaxYearsAhead == 1
MaxPaid == 141
MaxLedgerPaid == 2

(* Scales of the stored column types.                                      *)
CentScale == 100
RateScale == 10000
StartYear == 2024
\* Client.payment_terms default, and the days save_invoice adds to now().
DefaultPaymentTerms == 30
DueDays == 30

----------------------------------------------------------------------------
(* Decimal arithmetic.                                                     *)

\* Decimal.quantize with the default context rounding, ROUND_HALF_EVEN:
\* n / d rounded to an integer, ties to the even neighbour.
RoundHalfEven(n, d) ==
    LET q == n \div d
        r == n % d
    IN  IF 2 * r < d THEN q
        ELSE IF 2 * r > d THEN q + 1
        ELSE IF q % 2 = 0 THEN q ELSE q + 1

\* The rounding a Numeric(p, 2) column applies to a value of finer scale when
\* it is stored (PostgreSQL numeric: ties away from zero).
RoundHalfAway(n, d) ==
    LET q == n \div d
        r == n % d
    IN  IF 2 * r < d THEN q
        ELSE IF 2 * r > d THEN q + 1
        ELSE IF n >= 0 THEN q + 1 ELSE q

\* An exact e4 amount as stored in a Numeric(12, 2) column, in cents.
StoreMoney(x) == RoundHalfAway(x, CentScale)

\* Mutant of QuantizeTax: ties rounded up (ROUND_HALF_UP).
QuantizeTax_HalfUp(subtotal, rate) ==
    CentScale * ((2 * subtotal * rate + RateScale * CentScale)
                     \div (2 * RateScale * CentScale))

\* (subtotal * rate).quantize(Decimal("0.01")), as an e4 amount.
QuantizeTax(subtotal, rate) ==
    CentScale * RoundHalfEven(subtotal * rate, RateScale * CentScale)

----------------------------------------------------------------------------
(* Request payloads: the bounded sets the handlers' inputs are drawn from. *)

\* RateItemCreate bodies (rate in cents).  The first two share the lookup
\* key labor.wire; the second has rate 0.
RateInputs ==
    { [category |-> "labor", name |-> "Wire", rate |-> 25, unit |-> "hour",
       aliases |-> <<"cable">>],
      [category |-> "labor", name |-> "wire", rate |-> 0, unit |-> "metre",
       aliases |-> <<>>],
      [category |-> "materials", name |-> "Panel", rate |-> 45, unit |-> "each",
       aliases |-> <<>>] }

\* Items the extraction step may return (quantity in hundredths).
ParsedItems ==
    { [item_key |-> <<"labor", "wire">>, quantity |-> 50, notes |-> None],
      [item_key |-> <<"materials", "panel">>, quantity |-> 200, notes |-> Some("rush")],
      [item_key |-> <<"labor", "Wire">>, quantity |-> 150, notes |-> None] }

RECURSIVE SeqsUpTo(_, _)
SeqsUpTo(S, n) ==
    IF n = 0 THEN {<<>>}
    ELSE LET shorter == SeqsUpTo(S, n - 1)
         IN  shorter \cup {Append(s, x) : s \in shorter, x \in S}

\* ParsedInvoice values: what parse_work_description may return.
ParsedInvoices ==
    [line_items : SeqsUpTo(ParsedItems, MaxItems),
     unmatched_items : {<<>>, <<[text |-> "gutter cleaning"]>>}]

\* BusinessSettingsUpdate bodies after model_dump(exclude_unset=True): the
\* fields that were sent.
SettingsInputs ==
    { [tax_rate |-> None],
      [tax_rate |-> Some(0)],
      [tax_rate |-> Some(500)],
      [secondary_tax_rate |-> Some(2500)],
      [tax_rate |-> Some(500), secondary_tax_rate |-> None] }

\* Payment amounts of record_payment: the Decimal query parameter, in e4
\* units (-0.47, 0, 0.47 and 0.935).
PaymentAmounts == {0 - 4700, 0, 4700, 9350}

----------------------------------------------------------------------------
(* The demo user.                                                          *)

DemoUser == [tax_rate |-> Some(500), secondary_tax_rate |-> None]

\* get_or_create_demo_user: the first row of users, created when absent.
get_or_create_demo_user(u) == IF u = None THEN Some(DemoUser) ELSE u

\* `if user.tax_rate:` -- None and Decimal 0 are both falsy.
Truthy(opt) == opt # None /\ opt[1] # 0

----------------------------------------------------------------------------
(* The rate card.                                                          *)

\* str.lower over the names of the model.
Lower(s) ==
    CASE s = "Wire" -> "wire"
      [] s = "Panel" -> "panel"
      [] OTHER -> s

\* f"{r.category}.{r.name.lower()}"
RateKey(r) == <<r.category, Lower(r.name)>>

\* select(RateItem).where(user_id == ..., is_active == True)
ActiveIds == {i \in 1..Len(rate_items) : rate_items[i].is_active}

\* The dict comprehension of build_invoice_from_parsed.  The query has no
\* ORDER BY, so among the active rows sharing a key the one that comes last,
\* and so stays in the dict, is any of them.
RateIndexes ==
    LET keys == {RateKey(rate_items[i]) : i \in ActiveIds}
    IN  {f \in [keys -> ActiveIds] : \A k \in keys : RateKey(rate_items[f[k]]) = k}

----------------------------------------------------------------------------
(* Pricing: build_invoice_from_parsed.                                     *)

\* Mutant of InvoiceLineItemData: the line total quantized to cents.
InvoiceLineItemData_Quantized(description, quantity, unit, unit_price, rate_item_id, notes) ==
    [description |-> description,
     quantity |-> quantity,
     unit |-> unit,
     unit_price |-> unit_price,
     line_total |-> CentScale * RoundHalfEven(quantity * unit_price, CentScale),
     rate_item_id |-> rate_item_id,
     notes |-> notes,
     matched |-> TRUE]

\* InvoiceLineItemData.__init__: line_total = quantity * unit_price, exact.
InvoiceLineItemData(description, quantity, unit, unit_price, rate_item_id, notes) ==
    [description |-> description,
     quantity |-> quantity,
     unit |-> unit,
     unit_price |-> unit_price,
     line_total |-> quantity * unit_price,
     rate_item_id |-> rate_item_id,
     notes |-> notes,
     matched |-> TRUE]

\* Mutant of PricedLine: the description is taken from the extracted key.
PricedLine_FromExtraction(parsed_item, id) ==
    InvoiceLineItemData(parsed_item.item_key[2], parsed_item.quantity,
                        rate_items[id].unit, rate_items[id].rate,
                        id, parsed_item.notes)

\* The line priced from the matched rate item: everything but quantity and
\* notes is copied from the rate card row.
PricedLine(parsed_item, id) ==
    InvoiceLineItemData(rate_items[id].name, parsed_item.quantity,
                        rate_items[id].unit, rate_items[id].rate,
                        id, parsed_item.notes)

\* f"{parsed_item.item_key} (qty: {parsed_item.quantity})"
FormatUnmatched(parsed_item) ==
    [key |-> parsed_item.item_key, qty |-> parsed_item.quantity]

\* The loop over parsed.line_items: the matched items, in order.
RECURSIVE BuildLineItems(_, _)
BuildLineItems(items, index) ==
    IF items = <<>> THEN <<>>
    ELSE LET it == Head(items)
             rest == BuildLineItems(Tail(items), index)
         IN  IF it.item_key \in DOMAIN index
             THEN <<PricedLine(it, index[it.item_key])>> \o rest
             ELSE rest

\* Mutant of BuildUnmatched: the items that are not found are dropped.
BuildUnmatched_Dropped(items, index) == <<>>

\* The same loop: the items that rate_items.get() does not find, in order.
RECURSIVE BuildUnmatched(_, _)
BuildUnmatched(items, index) ==
    IF items = <<>> THEN <<>>
    ELSE LET it == Head(items)
             rest == BuildUnmatched(Tail(items), index)
         IN  IF it.item_key \in DOMAIN index
             THEN rest
             ELSE <<FormatUnmatched(it)>> \o rest

\* sum(item.line_total for item in line_items)
RECURSIVE SumLineTotals(_)
SumLineTotals(lines) ==
    IF lines = <<>> THEN 0 ELSE Head(lines).line_total + SumLineTotals(Tail(lines))

\* tax_amount of build_invoice_from_parsed.
PrimaryTax(subtotal, usr) ==
    IF Truthy(usr.tax_rate) THEN QuantizeTax(subtotal, usr.tax_rate[1]) ELSE 0

\* secondary_tax_amount of build_invoice_from_parsed.
SecondaryTax(subtotal, usr) ==
    IF Truthy(usr.secondary_tax_rate)
    THEN QuantizeTax(subtotal, usr.secondary_tax_rate[1])
    ELSE 0

\* InvoiceData from the priced lines.
InvoiceData(line_items, subtotal, tax_amount, secondary_tax_amount, unmatched) ==
    [line_items |-> line_items,
     subtotal |-> subtotal,
     tax_amount |-> tax_amount,
     secondary_tax_amount |-> secondary_tax_amount,
     total |-> subtotal + tax_amount + secondary_tax_amount,
     unmatched_items |-> unmatched]

build_invoice_from_parsed(parsed, index, usr) ==
    LET line_items == BuildLineItems(parsed.line_items, index)
        subtotal == SumLineTotals(line_items)
    IN  InvoiceData(line_items, subtotal,
                    PrimaryTax(subtotal, usr), SecondaryTax(subtotal, usr),
                    parsed.unmatched_items \o BuildUnmatched(parsed.line_items, index))

----------------------------------------------------------------------------
(* Persistence: save_invoice.                                              *)

\* The decimal digits of n >= 0, most significant first.
RECURSIVE Digits(_)
Digits(n) == IF n < 10 THEN <<n>> ELSE Append(Digits(n \div 10), n % 10)

\* Left-pad with zeros to a width of w.
RECURSIVE ZeroPad(_, _)
ZeroPad(ds, w) == IF Len(ds) >= w THEN ds ELSE ZeroPad(<<0>> \o ds, w)

\* f"{n:04d}"
Format04d(n) == ZeroPad(Digits(n), 4)

\* int(s) succeeds: a non-empty string of decimal digits.
ParsesAsInt(s) == s # <<>> /\ \A i \in 1..Len(s) : s[i] \in 0..9

\* int(s) for a string of decimal digits.
RECURSIVE ParseInt(_)
ParseInt(s) ==
    IF s = <<>> THEN 0 ELSE 10 * ParseInt(SubSeq(s, 1, Len(s) - 1)) + s[Len(s)]

\* select(Invoice).order_by(created_at.desc()).limit(1)
LastInvoice(invs) == IF invs = <<>> THEN None ELSE Some(invs[Len(invs)])

\* Mutant of NextInvoiceNumber: the incremented suffix is not zero-padded.
NextInvoiceNumber_Unpadded(last_invoice, yr) ==
    IF last_invoice # None
    THEN [year |-> yr,
          suffix |-> Digits(ParseInt(last_invoice[1].invoice_number.suffix) + 1)]
    ELSE [year |-> yr, suffix |-> <<0, 0, 0, 1>>]

\* Mutant of NextInvoiceNumber: the sequence restarts with the year.
NextInvoiceNumber_PerYear(last_invoice, yr) ==
    IF last_invoice # None /\ last_invoice[1].invoice_number.year = yr
    THEN [year |-> yr,
          suffix |-> Format04d(ParseInt(last_invoice[1].invoice_number.suffix) + 1)]
    ELSE [year |-> yr, suffix |-> <<0, 0, 0, 1>>]

\* The invoice number save_invoice assigns; a number "<year>-<suffix>" is the
\* record of its year and of the digits after the last "-".
NextInvoiceNumber(last_invoice, yr) ==
    IF last_invoice # None
    THEN LET suffix == last_invoice[1].invoice_number.suffix
         IN  IF ParsesAsInt(suffix)
             THEN [year |-> yr, suffix |-> Format04d(ParseInt(suffix) + 1)]
             ELSE [year |-> yr, suffix |-> <<0, 0, 0, 1>>]
    ELSE [year |-> yr, suffix |-> <<0, 0, 0, 1>>]

\* An InvoiceLineItem row: line_total goes through its Numeric(12, 2) column.
StoredLine(item, i) ==
    [rate_item_id |-> item.rate_item_id,
     description |-> item.description,
     quantity |-> item.quantity,
     unit |-> item.unit,
     unit_price |-> item.unit_price,
     line_total |-> StoreMoney(item.line_total),
     sort_order |-> i - 1]

\* The Invoice row and its line items as committed by save_invoice.
save_invoice(invoice_data, original_input, client_id, invs, yr) ==
    [invoice_number |-> NextInvoiceNumber(LastInvoice(invs), yr),
     client_id |-> client_id,
     status |-> "draft",
     original_input |-> original_input,
     amount_paid |-> 0,
     sent_at |-> None,
     sent_to |-> None,
     due_days |-> DueDays,
     subtotal |-> StoreMoney(invoice_data.subtotal),
     tax_amount |-> StoreMoney(invoice_data.tax_amount),
     secondary_tax_amount |-> StoreMoney(invoice_data.secondary_tax_amount),
     total |-> StoreMoney(invoice_data.total),
     line_items |-> [i \in 1..Len(invoice_data.line_items) |->
                        StoredLine(invoice_data.line_items[i], i)]]

----------------------------------------------------------------------------
(* Recurring invoices: recurring.py.                                       *)

\* Template items of a schedule (quantity in hundredths).  rate_item_id is
\* the row's id; the dict that generate_invoice_from_recurring builds is keyed
\* by str(r.id), so an id handed over as a UUID object (id_is_str = FALSE) is
\* not found in it.
T1 == [rate_item_id |-> 1, id_is_str |-> TRUE, quantity |-> 50, description |-> None]
T2 == [rate_item_id |-> 2, id_is_str |-> TRUE, quantity |-> 200,
       description |-> Some("Monthly service")]
T3 == [rate_item_id |-> 1, id_is_str |-> FALSE, quantity |-> 200, description |-> None]

\* The line_items arguments of create_recurring_invoice.
ScheduleTemplates == { <<T1, T2>>, <<T1, T1>>, <<T3>> }

\* rate_items.get(item["rate_item_id"]) over
\* select(RateItem).where(RateItem.id.in_(rate_item_ids)): the row of that id,
\* active or not.
TemplateFinds(item) == item.id_is_str /\ item.rate_item_id \in 1..Len(rate_items)

\* Mutant of TemplateLine: every line is priced at the rate of the first row
\* of the rate card.
TemplateLine_FirstRate(item) ==
    InvoiceLineItemData(
        IF item.description # None THEN item.description[1]
                                   ELSE rate_items[item.rate_item_id].name,
        item.quantity,
        rate_items[item.rate_item_id].unit,
        rate_items[1].rate,
        item.rate_item_id,
        None)

\* The line of one template item: item.get("description") or rate_item.name.
TemplateLine(item) ==
    InvoiceLineItemData(
        IF item.description # None THEN item.description[1]
                                   ELSE rate_items[item.rate_item_id].name,
        item.quantity,
        rate_items[item.rate_item_id].unit,
        rate_items[item.rate_item_id].rate,
        item.rate_item_id,
        None)

RECURSIVE TemplateLines(_)
TemplateLines(items) ==
    IF items = <<>> THEN <<>>
    ELSE LET rest == TemplateLines(Tail(items))
         IN  IF TemplateFinds(Head(items))
             THEN <<TemplateLine(Head(items))>> \o rest
             ELSE rest

\* tax_amount of generate_invoice_from_recurring:
\* (subtotal * (user.tax_rate or Decimal("0"))).quantize(Decimal("0.01"))
RecurringPrimaryTax(subtotal, usr) ==
    QuantizeTax(subtotal, IF Truthy(usr.tax_rate) THEN usr.tax_rate[1] ELSE 0)

\* The InvoiceData that generate_invoice_from_recurring hands to save_invoice.
recurring_invoice_data(schedule, usr) ==
    LET line_items == TemplateLines(schedule.line_items)
        subtotal == SumLineTotals(line_items)
    IN  InvoiceData(line_items, subtotal,
                    RecurringPrimaryTax(subtotal, usr), SecondaryTax(subtotal, usr),
                    <<>>)

----------------------------------------------------------------------------
(* The initial state: an empty database, no request served yet.            *)

Init ==
    /\ year = StartYear
    /\ inflight = <<>>
    /\ user = None
    /\ rate_items = <<>>
    /\ clients = <<>>
    /\ invoices = <<>>
    /\ schedules = <<>>
    /\ last = [op |-> "none", code |-> 0]
    /\ extraction = [line_items |-> <<>>, unmatched_items |-> <<>>]

\* The response of a request that returns no data the model reads.
Response(op, code) == [op |-> op, code |-> code]

----------------------------------------------------------------------------
(* Rate card handlers.                                                     *)

\* POST /rate-items
create_rate_item(item) ==
    /\ Len(rate_items) < MaxRateItems
    /\ user' = get_or_create_demo_user(user)
    /\ rate_items' = Append(rate_items,
                            [category |-> item.category, name |-> item.name,
                             rate |-> item.rate, unit |-> item.unit,
                             aliases |-> item.aliases, is_active |-> TRUE])
    /\ last' = Response("create_rate_item", 200)
    /\ UNCHANGED <<year, clients, invoices, schedules, extraction, inflight>>

\* Mutant of update_rate_item: the new rate is pushed into the invoice lines
\* that reference the item.
update_rate_item_Cascading(item_id, item) ==
    /\ user' = get_or_create_demo_user(user)
    /\ item_id \in 1..Len(rate_items)
    /\ rate_items' = [rate_items EXCEPT ![item_id] =
                          [category |-> item.category, name |-> item.name,
                           rate |-> item.rate, unit |-> item.unit,
                           aliases |-> item.aliases,
                           is_active |-> rate_items[item_id].is_active]]
    /\ invoices' = [i \in 1..Len(invoices) |->
                       [invoices[i] EXCEPT !.line_items =
                           [j \in 1..Len(invoices[i].line_items) |->
                               IF invoices[i].line_items[j].rate_item_id = item_id
                               THEN [invoices[i].line_items[j] EXCEPT
                                         !.unit_price = item.rate]
                               ELSE invoices[i].line_items[j]]]]
    /\ last' = Response("update_rate_item", 200)
    /\ UNCHANGED <<year, clients, schedules, extraction, inflight>>

\* PUT /rate-items/{item_id}
update_rate_item(item_id, item) ==
    /\ user' = get_or_create_demo_user(user)
    /\ IF item_id \in 1..Len(rate_items)
       THEN /\ rate_items' = [rate_items EXCEPT ![item_id] =
                                 [category |-> item.category, name |-> item.name,
                                  rate |-> item.rate, unit |-> item.unit,
                                  aliases |-> item.aliases,
                                  is_active |-> rate_items[item_id].is_active]]
            /\ last' = Response("update_rate_item", 200)
       ELSE /\ rate_items' = rate_items
            /\ last' = Response("update_rate_item", 404)
    /\ UNCHANGED <<year, clients, invoices, schedules, extraction, inflight>>

\* DELETE /rate-items/{item_id}
delete_rate_item(item_id) ==
    /\ user' = get_or_create_demo_user(user)
    /\ IF item_id \in 1..Len(rate_items)
       THEN /\ rate_items' = [rate_items EXCEPT ![item_id].is_active = FALSE]
            /\ last' = Response("delete_rate_item", 200)
       ELSE /\ rate_items' = rate_items
            /\ last' = Response("delete_rate_item", 404)
    /\ UNCHANGED <<year, clients, invoices, schedules, extraction, inflight>>

----------------------------------------------------------------------------
(* Clients and settings.                                                   *)

\* POST /clients
create_client(email) ==
    /\ Len(clients) < MaxClients
    /\ user' = get_or_create_demo_user(user)
    /\ clients' = Append(clients,
                         [email |-> email, total_invoiced |-> 0,
                          total_paid |-> 0, invoice_count |-> 0,
                          payment_terms |-> DefaultPaymentTerms])
    /\ last' = Response("create_client", 200)
    /\ UNCHANGED <<year, rate_items, invoices, schedules, extraction, inflight>>

\* PUT /settings: setattr(user, key, value) for every field sent.
update_settings(settings) ==
    /\ LET u == get_or_create_demo_user(user)[1]
       IN  user' = Some([f \in DOMAIN u |->
                            IF f \in DOMAIN settings THEN settings[f] ELSE u[f]])
    /\ last' = Response("update_settings", 200)
    /\ UNCHANGED <<year, rate_items, clients, invoices, schedules, extraction, inflight>>

----------------------------------------------------------------------------
(* Parsing and creating invoices.                                          *)

\* Mutant of parse_work_to_invoice: the draft is saved as an invoice.
parse_work_to_invoice_Saving(parsed, index) ==
    /\ user' = get_or_create_demo_user(user)
    /\ LET invoice_data == build_invoice_from_parsed(parsed, index, user'[1])
       IN  /\ invoices' = Append(invoices,
                                 save_invoice(invoice_data, "work", None,
                                              invoices, year))
           /\ last' = [op |-> "parse", code |-> 200, parsed |-> parsed,
                       data |-> invoice_data]
    /\ UNCHANGED <<year, rate_items, clients, schedules, extraction, inflight>>

\* POST /invoices/parse
parse_work_to_invoice(parsed, index) ==
    /\ user' = get_or_create_demo_user(user)
    /\ IF ActiveIds = {}
       THEN last' = [op |-> "parse", code |-> 400, parsed |-> parsed]
       ELSE last' = [op |-> "parse", code |-> 200, parsed |-> parsed,
                     data |-> build_invoice_from_parsed(parsed, index, user'[1])]
    /\ UNCHANGED <<year, rate_items, clients, invoices, schedules, extraction, inflight>>

\* POST /invoices
create_invoice(parsed, index, client_id) ==
    /\ user' = get_or_create_demo_user(user)
    /\ LET invoice_data == build_invoice_from_parsed(parsed, index, user'[1])
       IN  /\ invoices' = Append(invoices,
                                 save_invoice(invoice_data, "work", client_id,
                                              invoices, year))
           /\ last' = [op |-> "create", code |-> 200, parsed |-> parsed,
                       data |-> invoice_data]
    /\ UNCHANGED <<year, rate_items, clients, schedules, extraction, inflight>>

----------------------------------------------------------------------------
(* Recurring schedules.                                                    *)

\* datetime.now() as a date: the model's clock counts years, every instant
\* of a year is its first day.
Now == [year |-> year, month |-> 1, day |-> 1]

\* The start_date the requests of the other scenarios pass.
ScheduleStart == [year |-> StartYear, month |-> 1, day |-> 31]

\* The schedule dict create_recurring_invoice builds (dates are records
\* [year, month, day]; start_date and end_date are optional arguments).
Schedule(client_id, line_items, frequency, start_date, end_date, now) ==
    [client_id |-> client_id, line_items |-> line_items,
     frequency |-> frequency,
     start_date |-> IF start_date # None THEN start_date[1] ELSE now,
     end_date |-> end_date,
     next_invoice_date |-> IF start_date # None THEN start_date[1] ELSE now,
     is_active |-> TRUE]

\* create_recurring_invoice: returns the schedule dict; nothing is stored in
\* the database.
create_recurring_invoice(client_id, line_items, frequency, start_date, end_date) ==
    /\ Len(schedules) < MaxSchedules
    /\ client_id \in 1..Len(clients)
    /\ schedules' = Append(schedules,
                           Schedule(client_id, line_items, frequency,
                                    start_date, end_date, Now))
    /\ last' = Response("create_recurring", 200)
    /\ UNCHANGED <<year, user, rate_items, clients, invoices, extraction, inflight>>

\* generate_invoice_from_recurring(db, schedule, user)
generate_invoice_from_recurring(s) ==
    /\ s \in 1..Len(schedules)
    /\ user # None
    /\ LET invoice_data == recurring_invoice_data(schedules[s], user[1])
       IN  /\ invoices' = Append(invoices,
                                 save_invoice(invoice_data, "recurring",
                                              Some(schedules[s].client_id),
                                              invoices, year))
           /\ last' = [op |-> "generate", code |-> 200, data |-> invoice_data,
                       schedule |-> s]
    /\ UNCHANGED <<year, user, rate_items, clients, schedules, extraction, inflight>>

----------------------------------------------------------------------------
(* Payments.                                                               *)

\* invoice.amount_paid + amount, in e4 units: the value the handler compares
\* with the total before the row is written.
PaidAfter(inv, amount) == inv.amount_paid * CentScale + amount

\* The status record_payment leaves on the invoice.
StatusAfter(inv, amount) ==
    IF PaidAfter(inv, amount) >= inv.total * CentScale THEN "paid"
    ELSE IF PaidAfter(inv, amount) > 0 THEN "partial"
    ELSE inv.status

\* POST /invoices/{invoice_id}/payment
record_payment(invoice_id, amount) ==
    /\ user' = get_or_create_demo_user(user)
    /\ IF invoice_id \in 1..Len(invoices)
       THEN LET inv == invoices[invoice_id]
                stored == StoreMoney(PaidAfter(inv, amount))
            IN  /\ stored \in (0 - MaxPaid)..MaxPaid
                /\ invoices' = [invoices EXCEPT ![invoice_id] =
                                    [inv EXCEPT !.amount_paid = stored,
                                                !.status = StatusAfter(inv, amount)]]
                /\ clients' =
                       IF inv.client_id # None
                       THEN [clients EXCEPT ![inv.client_id[1]].total_paid =
                                StoreMoney(@ * CentScale + amount)]
                       ELSE clients
                /\ last' = [op |-> "payment", code |-> 200,
                            invoice_id |-> invoice_id, amount |-> amount]
       ELSE /\ invoices' = invoices
            /\ clients' = clients
            /\ last' = [op |-> "payment", code |-> 404,
                        invoice_id |-> invoice_id, amount |-> amount]
    /\ UNCHANGED <<year, rate_items, schedules, extraction, inflight>>

----------------------------------------------------------------------------
(* Sending.  An e-mail address is a string; "" stands for no address (None *)
(* or the empty string, which `not recipient_email` treats alike).         *)

\* The recipient send_invoice_email settles on: to_email, else the e-mail of
\* the invoice's client.
Recipient(inv, to_email) ==
    IF to_email # "" THEN to_email
    ELSE IF inv.client_id # None THEN clients[inv.client_id[1]].email
    ELSE ""

\* The Invoice row after a successful delivery.
MarkSent(inv, recipient_email) ==
    [inv EXCEPT !.status = "sent",
                !.sent_at = Some(year),
                !.sent_to = Some(recipient_email)]

\* Mutant of send_invoice_email: the invoice is marked as sent whatever the
\* delivery reports.
send_invoice_email_Unconditional(invoice_id, to_email, configured, success) ==
    /\ user' = get_or_create_demo_user(user)
    /\ invoice_id \in 1..Len(invoices)
    /\ Recipient(invoices[invoice_id], to_email) # ""
    /\ configured
    /\ invoices' = [invoices EXCEPT ![invoice_id] =
                        MarkSent(@, Recipient(invoices[invoice_id], to_email))]
    /\ last' = [op |-> "send", code |-> IF success THEN 200 ELSE 500,
                invoice_id |-> invoice_id, to_email |-> to_email,
                configured |-> configured, success |-> success]
    /\ UNCHANGED <<year, rate_items, clients, schedules, extraction, inflight>>

\* POST /invoices/{invoice_id}/send.  configured: settings.smtp_user is set;
\* success: what EmailService.send_invoice returns.
send_invoice_email(invoice_id, to_email, configured, success) ==
    /\ user' = get_or_create_demo_user(user)
    /\ LET code ==
               IF invoice_id \notin 1..Len(invoices) THEN 404
               ELSE IF Recipient(invoices[invoice_id], to_email) = "" THEN 400
               ELSE IF ~configured THEN 400
               ELSE IF success THEN 200
               ELSE 500
       IN  /\ invoices' =
                  IF code = 200
                  THEN [invoices EXCEPT ![invoice_id] =
                           MarkSent(@, Recipient(invoices[invoice_id], to_email))]
                  ELSE invoices
           /\ last' = [op |-> "send", code |-> code,
                       invoice_id |-> invoice_id, to_email |-> to_email,
                       configured |-> configured, success |-> success]
    /\ UNCHANGED <<year, rate_items, clients, schedules, extraction, inflight>>

----------------------------------------------------------------------------
(* The wall clock.                                                         *)

\* New Year: datetime.now().year grows by one.
NewYear ==
    /\ year < StartYear + MaxYearsAhead
    /\ year' = year + 1
    /\ UNCHANGED <<user, rate_items, clients, invoices, schedules, last, extraction, inflight>>

ClientRefs == {None} \cup {Some(c) : c \in 1..Len(clients)}

\* The to_email query parameter of send_invoice_email: absent or given.
ToEmails == {"", "b@example.com"}

----------------------------------------------------------------------------
(* The program: every handler, from the empty database.                    *)

Next ==
    \/ \E item \in RateInputs : create_rate_item(item)
    \/ \E item_id \in 1..MaxRateItems, item \in RateInputs :
           update_rate_item(item_id, item)
    \/ \E item_id \in 1..MaxRateItems : delete_rate_item(item_id)
    \/ create_client("a@example.com")
    \/ \E settings \in SettingsInputs : update_settings(settings)
    \/ \E parsed \in ParsedInvoices, index \in RateIndexes :
           parse_work_to_invoice(parsed, index)
    \/ /\ Len(invoices) < MaxInvoices
       /\ \E parsed \in ParsedInvoices, index \in RateIndexes, c \in ClientRefs :
              create_invoice(parsed, index, c)
    \/ \E c \in 1..MaxClients, t \in ScheduleTemplates :
           create_recurring_invoice(c, t, "monthly",
                                    Some(ScheduleStart), None)
    \/ /\ Len(invoices) < MaxInvoices
       /\ \E s \in 1..MaxSchedules : generate_invoice_from_recurring(s)
    \/ \E i \in 1..MaxInvoices, amount \in PaymentAmounts :
           record_payment(i, amount)
    \/ \E i \in 1..MaxInvoices, to_email \in ToEmails :
           \E configured \in BOOLEAN, success \in BOOLEAN :
               send_invoice_email(i, to_email, configured, success)
    \/ NewYear

Spec == Init /\ [][Next]_vars

----------------------------------------------------------------------------
(* The pricing scenario: build_invoice_from_parsed as a function of the    *)
(* stored rate card, the stored tax settings and the extraction result.    *)
(* Its initial states are the rate cards and settings that the rate-card   *)
(* and settings handlers can leave in the database, with every extraction  *)
(* result of ParsedInvoices.                                               *)

RateRows ==
    {[category |-> item.category, name |-> item.name, rate |-> item.rate,
      unit |-> item.unit, aliases |-> item.aliases, is_active |-> a] :
        item \in RateInputs, a \in BOOLEAN}

UserRows == [tax_rate : {None, Some(0), Some(500)},
             secondary_tax_rate : {None, Some(2500)}]

NoExtraction == [line_items |-> <<>>, unmatched_items |-> <<>>]

InitPricing ==
    /\ year = StartYear
    /\ inflight = <<>>
    /\ user \in {Some(u) : u \in UserRows}
    /\ rate_items \in SeqsUpTo(RateRows, MaxRateItems)
    /\ clients = <<[email |-> None, total_invoiced |-> 0, total_paid |-> 0,
                    invoice_count |-> 0,
                    payment_terms |-> DefaultPaymentTerms]>>
    /\ invoices = <<>>
    /\ last = [op |-> "none", code |-> 0]
    /\ \/ /\ extraction \in ParsedInvoices
          /\ schedules = <<>>
       \/ /\ extraction = NoExtraction
          /\ schedules \in {<<Schedule(1, t, "monthly", Some(ScheduleStart),
                                         None, ScheduleStart)>> :
                                t \in ScheduleTemplates}

NextPricing ==
    \/ \E index \in RateIndexes : parse_work_to_invoice(extraction, index)
    \/ /\ Len(invoices) < MaxPriced
       /\ \E index \in RateIndexes : create_invoice(extraction, index, None)
    \/ /\ Len(invoices) < MaxPriced
       /\ \E s \in 1..MaxSchedules : generate_invoice_from_recurring(s)

SpecPricing == InitPricing /\ [][NextPricing]_vars

----------------------------------------------------------------------------
(* The rate card scenario: the rate card handlers around invoice creation, *)
(* from the empty database, for one work description.                      *)

RatesParsed ==
    { [line_items |->
           <<[item_key |-> <<"labor", "wire">>, quantity |-> 50, notes |-> None],
             [item_key |-> <<"materials", "panel">>, quantity |-> 200,
              notes |-> Some("rush")]>>,
       unmatched_items |-> <<>>] }

NextRates ==
    \/ \E item \in RateInputs : create_rate_item(item)
    \/ \E item_id \in 1..MaxRateItems, item \in RateInputs :
           update_rate_item(item_id, item)
    \/ \E item_id \in 1..MaxRateItems : delete_rate_item(item_id)
    \/ /\ Len(invoices) < MaxPriced
       /\ \E parsed \in RatesParsed, index \in RateIndexes :
              create_invoice(parsed, index, None)

SpecRates == Init /\ [][NextRates]_vars

----------------------------------------------------------------------------
(* The numbering scenario: invoices saved by create_invoice and from       *)
(* recurring schedules, over a change of year, from the empty database.    *)

\* The rate card row and the work description of the numbering and payment
\* scenarios: 2.00 panels at 0.45.
LedgerRate ==
    [category |-> "materials", name |-> "Panel", rate |-> 45, unit |-> "each",
     aliases |-> <<>>]

LedgerParsed ==
    [line_items |-> <<[item_key |-> <<"materials", "panel">>, quantity |-> 200,
                       notes |-> None]>>,
     unmatched_items |-> <<>>]

NextNumbering ==
    \/ create_rate_item(LedgerRate)
    \/ create_client("a@example.com")
    \/ /\ Len(invoices) < MaxInvoices
       /\ \E index \in RateIndexes, c \in ClientRefs :
              create_invoice(LedgerParsed, index, c)
    \/ \E c \in 1..MaxClients : create_recurring_invoice(c, <<T1>>, "monthly",
                                    Some(ScheduleStart), None)
    \/ /\ Len(invoices) < MaxInvoices
       /\ \E s \in 1..MaxSchedules : generate_invoice_from_recurring(s)
    \/ NewYear

SpecNumbering == Init /\ [][NextNumbering]_vars

----------------------------------------------------------------------------
(* The payment scenario: payments recorded against one invoice, from the   *)
(* empty database.                                                         *)

NextPayments ==
    \/ create_rate_item(LedgerRate)
    \/ create_client("a@example.com")
    \/ /\ Len(invoices) < MaxPriced
       /\ \E index \in RateIndexes, c \in ClientRefs :
              create_invoice(LedgerParsed, index, c)
    \/ \E i \in 1..MaxPriced, amount \in PaymentAmounts :
           record_payment(i, amount)

SpecPayments == Init /\ [][NextPayments]_vars

----------------------------------------------------------------------------
(* The ledger scenario: payments recorded against the invoices of one      *)
(* client, from the empty database.                                        *)

\* Payment amounts of the ledger scenario, in e4 units: -0.01, 0.005, 0.01.
LedgerAmounts == {0 - 100, 50, 100}

\* The payment keeps the invoice's amount_paid and its client's total_paid
\* within MaxLedgerPaid cents of 0.
LedgerWithin(inv, amount) ==
    LET range == (0 - MaxLedgerPaid)..MaxLedgerPaid
    IN  /\ StoreMoney(PaidAfter(inv, amount)) \in range
        /\ inv.client_id # None =>
               StoreMoney(clients[inv.client_id[1]].total_paid * CentScale + amount)
                   \in range

NextLedger ==
    \/ create_client("a@example.com")
    \/ /\ Len(invoices) < MaxInvoices
       /\ \E index \in RateIndexes, c \in ClientRefs :
              create_invoice(LedgerParsed, index, c)
    \/ \E i \in 1..MaxInvoices, amount \in LedgerAmounts :
           /\ i \in 1..Len(invoices) => LedgerWithin(invoices[i], amount)
           /\ record_payment(i, amount)

SpecLedger == Init /\ [][NextLedger]_vars

----------------------------------------------------------------------------
(* The quantity scenario: extraction results and schedule templates whose  *)
(* quantities are negative, zero or positive, from the empty database.     *)

\* Extracted panels of quantity -1.00, 0 and 2.00.
QuantityItems ==
    { [item_key |-> <<"materials", "panel">>, quantity |-> q, notes |-> None] :
          q \in {0 - 100, 0, 200} }

QuantityParsed ==
    { [line_items |-> <<it>>, unmatched_items |-> <<>>] : it \in QuantityItems }

\* Template items of quantity -0.50 and 0.
T4 == [rate_item_id |-> 1, id_is_str |-> TRUE, quantity |-> 0 - 50, description |-> None]
T5 == [rate_item_id |-> 1, id_is_str |-> TRUE, quantity |-> 0, description |-> None]

NextQuantity ==
    \/ create_rate_item(LedgerRate)
    \/ create_client("a@example.com")
    \/ \E parsed \in QuantityParsed, index \in RateIndexes :
           parse_work_to_invoice(parsed, index)
    \/ /\ Len(invoices) < MaxPriced
       /\ \E parsed \in QuantityParsed, index \in RateIndexes :
              create_invoice(parsed, index, None)
    \/ \E c \in 1..MaxClients, t \in {<<T1>>, <<T4>>, <<T5>>} :
           create_recurring_invoice(c, t, "monthly",
                                    Some(ScheduleStart), None)
    \/ /\ Len(invoices) < MaxPriced
       /\ \E s \in 1..MaxSchedules : generate_invoice_from_recurring(s)

SpecQuantity == Init /\ [][NextQuantity]_vars

----------------------------------------------------------------------------
(* The settings scenario: tax rates sent to update_settings, inside and    *)
(* outside [0, 1], and an invoice created under them.                      *)

\* BusinessSettingsUpdate bodies: tax rates of 5%, 100%, 150% and -5%.
SettingsRange ==
    { [tax_rate |-> Some(500)],
      [tax_rate |-> Some(RateScale)],
      [tax_rate |-> Some(15000)],
      [tax_rate |-> Some(0 - 500)],
      [secondary_tax_rate |-> Some(15000)] }

NextSettings ==
    \/ \E settings \in SettingsRange : update_settings(settings)
    \/ create_rate_item(LedgerRate)
    \/ /\ Len(invoices) < MaxPriced
       /\ \E index \in RateIndexes : create_invoice(LedgerParsed, index, None)

SpecSettings == Init /\ [][NextSettings]_vars

----------------------------------------------------------------------------
(* The sending scenario: invoices with and without a client, the client    *)
(* with and without an e-mail address, sent with every outcome.            *)

NextSend ==
    \/ \E email \in {"", "a@example.com"} : create_client(email)
    \/ /\ Len(invoices) < MaxInvoices
       /\ \E index \in RateIndexes, c \in ClientRefs :
              create_invoice(LedgerParsed, index, c)
    \/ \E i \in 1..MaxInvoices, to_email \in ToEmails :
           \E configured \in BOOLEAN, success \in BOOLEAN :
               send_invoice_email(i, to_email, configured, success)

SpecSend == Init /\ [][NextSend]_vars

----------------------------------------------------------------------------
(* The payment terms scenario: invoices saved for a client whose row       *)
(* carries payment terms.  No handler writes Client.payment_terms, so a    *)
(* row created by create_client holds the column default; the scenario     *)
(* starts from a client row as the table admits it, with the default or    *)
(* with 15 days.                                                           *)

PaymentTermsRows == {15, DefaultPaymentTerms}

InitTerms ==
    /\ year = StartYear
    /\ inflight = <<>>
    /\ user = Some(DemoUser)
    /\ rate_items = <<>>
    /\ \E t \in PaymentTermsRows :
           clients = <<[email |-> "a@example.com", total_invoiced |-> 0,
                        total_paid |-> 0, invoice_count |-> 0,
                        payment_terms |-> t]>>
    /\ invoices = <<>>
    /\ schedules = <<>>
    /\ last = [op |-> "none", code |-> 0]
    /\ extraction = NoExtraction

NextTerms ==
    \/ create_rate_item(LedgerRate)
    \/ /\ Len(invoices) < MaxInvoices
       /\ \E index \in RateIndexes, c \in ClientRefs :
              create_invoice(LedgerParsed, index, c)
    \/ \E c \in 1..MaxClients : create_recurring_invoice(c, <<T1>>, "monthly",
                                    Some(ScheduleStart), None)
    \/ /\ Len(invoices) < MaxInvoices
       /\ \E s \in 1..MaxSchedules : generate_invoice_from_recurring(s)

SpecTerms == InitTerms /\ [][NextTerms]_vars

----------------------------------------------------------------------------
(* Schedule dates: get_next_date of recurring.py.  A date is the record of *)
(* its year, month and day; the time of day plays no part.                 *)

IsLeap(y) == (y % 4 = 0 /\ y % 100 # 0) \/ y % 400 = 0

DaysInMonth(y, m) ==
    IF m = 2 THEN (IF IsLeap(y) THEN 29 ELSE 28)
    ELSE IF m \in {4, 6, 9, 11} THEN 30 ELSE 31

ValidDate(d) ==
    /\ d.month \in 1..12
    /\ d.day \in 1..DaysInMonth(d.year, d.month)

\* datetime.replace(year=, month=, day=): the new date, or no date when the
\* constructor raises ValueError.
Replace(y, m, day) ==
    LET d == [year |-> y, month |-> m, day |-> day]
    IN  IF ValidDate(d) THEN Some(d) ELSE None

\* from_date + timedelta(days=n)
RECURSIVE AddDays(_, _)
AddDays(d, n) ==
    IF n = 0 THEN d
    ELSE IF d.day < DaysInMonth(d.year, d.month)
         THEN AddDays([d EXCEPT !.day = d.day + 1], n - 1)
         ELSE IF d.month < 12
              THEN AddDays([d EXCEPT !.month = d.month + 1, !.day = 1], n - 1)
              ELSE AddDays([year |-> d.year + 1, month |-> 1, day |-> 1], n - 1)

\* Mutant of ClampDay: the day of the month is kept.
ClampDay_Kept(day) == day

\* min(from_date.day, 28)
ClampDay(day) == IF day < 28 THEN day ELSE 28

\* The while loop of the quarterly branch.
RECURSIVE WrapMonth(_, _)
WrapMonth(month, yr) ==
    IF month > 12 THEN WrapMonth(month - 12, yr + 1)
    ELSE [month |-> month, year |-> yr]

Frequencies == {"weekly", "biweekly", "monthly", "quarterly", "yearly"}

get_next_date(frequency, from_date) ==
    IF frequency = "weekly" THEN Some(AddDays(from_date, 7))
    ELSE IF frequency = "biweekly" THEN Some(AddDays(from_date, 14))
    ELSE IF frequency = "monthly"
         THEN IF from_date.month + 1 > 12
              THEN Replace(from_date.year + 1, 1, ClampDay(from_date.day))
              ELSE Replace(from_date.year, from_date.month + 1,
                           ClampDay(from_date.day))
    ELSE IF frequency = "quarterly"
         THEN LET w == WrapMonth(from_date.month + 3, from_date.year)
              IN  Replace(w.year, w.month, ClampDay(from_date.day))
    ELSE IF frequency = "yearly"
         THEN Replace(from_date.year + 1, from_date.month, from_date.day)
    ELSE Some(from_date)

\* The dates of the year before StartYear and of StartYear, a leap year.
Dates ==
    {d \in [year : {StartYear - 1, StartYear}, month : 1..12, day : 1..31] :
        ValidDate(d)}

\* The scenario: one call of get_next_date for every frequency and date.
InitDates ==
    /\ year = StartYear
    /\ inflight = <<>>
    /\ user = None
    /\ rate_items = <<>>
    /\ clients = <<>>
    /\ invoices = <<>>
    /\ schedules = <<>>
    /\ extraction = NoExtraction
    /\ \E f \in Frequencies, d \in Dates :
           last = [op |-> "input", code |-> 0, frequency |-> f, from_date |-> d]

call_get_next_date ==
    /\ last.op = "input"
    /\ LET next_date == get_next_date(last.frequency, last.from_date)
       IN  last' = [op |-> "get_next_date",
                    code |-> IF next_date = None THEN 500 ELSE 200,
                    frequency |-> last.frequency,
                    from_date |-> last.from_date,
                    next_date |-> next_date]
    /\ UNCHANGED <<year, user, rate_items, clients, invoices, schedules, extraction, inflight>>

NextDates == call_get_next_date

SpecDates == InitDates /\ [][NextDates]_vars

----------------------------------------------------------------------------
(* Properties of pricing (checked under SpecPricing).                      *)

\* The request whose outcome `last` holds built an InvoiceData.
Built == last.op \in {"parse", "create"} /\ last.code = 200

\* The extracted item's key is the key of an active rate card entry.
ItemMatches(it) == \E i \in ActiveIds : RateKey(rate_items[i]) = it.item_key

ItemUnmatched(it) == ~ItemMatches(it)

\* The line is priced from an active entry whose key is the item's key.
LineFromCard(line, it) ==
    /\ line.rate_item_id \in ActiveIds
    /\ RateKey(rate_items[line.rate_item_id]) = it.item_key
    /\ line.unit_price = rate_items[line.rate_item_id].rate
    /\ line.description = rate_items[line.rate_item_id].name
    /\ line.unit = rate_items[line.rate_item_id].unit
    /\ line.quantity = it.quantity

\* The invoice row committed by the request whose outcome `last` holds.
Saved == invoices[Len(invoices)]

\* C1: every line item produced by build_invoice_from_parsed (parse-preview
\* and create) has the rate, name and unit of the active rate card entry its
\* key matched; only quantity and notes come from the extraction.
C1_PricesFromRateCard ==
    Built =>
        LET m == SelectSeq(last.parsed.line_items, ItemMatches)
            lines == last.data.line_items
        IN  /\ Len(lines) = Len(m)
            /\ \A j \in 1..Len(lines) :
                   /\ LineFromCard(lines[j], m[j])
                   /\ lines[j].notes = m[j].notes
            /\ last.op = "create" =>
                   /\ Len(Saved.line_items) = Len(m)
                   /\ \A j \in 1..Len(m) : LineFromCard(Saved.line_items[j], m[j])

\* A created invoice with two lines priced from two different entries.
C1_Witness ==
    /\ last.op = "create"
    /\ Len(Saved.line_items) = 2
    /\ Saved.line_items[1].rate_item_id # Saved.line_items[2].rate_item_id
    /\ Saved.line_items[1].unit_price # Saved.line_items[2].unit_price

\* C3 as stated: line_total equals quantity * rate exactly for every matched
\* line item, the InvoiceLineItemData of a build and the persisted row alike.
C3_LineTotalExact ==
    /\ Built => \A j \in 1..Len(last.data.line_items) :
           LET l == last.data.line_items[j]
           IN  l.line_total = l.quantity * rate_items[l.rate_item_id].rate
    /\ last.op = "create" => \A j \in 1..Len(Saved.line_items) :
           LET l == Saved.line_items[j]
           IN  CentScale * l.line_total = l.quantity * rate_items[l.rate_item_id].rate

\* C3 amended: the line_total of every line of a build equals quantity * rate
\* exactly (0 for rate 0); the persisted row holds that product rounded to
\* the nearest cent by its Numeric(12, 2) column.
C3_LineTotalExactInMemory ==
    /\ Built => \A j \in 1..Len(last.data.line_items) :
           LET l == last.data.line_items[j]
           IN  l.line_total = l.quantity * rate_items[l.rate_item_id].rate
    /\ last.op = "create" => \A j \in 1..Len(Saved.line_items) :
           LET l == Saved.line_items[j]
               exact == l.quantity * rate_items[l.rate_item_id].rate
           IN  /\ 2 * (CentScale * l.line_total - exact) <= CentScale
               /\ 2 * (exact - CentScale * l.line_total) <= CentScale

\* A created invoice with a line whose exact total is not a whole number of
\* cents, so that the persisted row holds another figure than the built line.
C3_Witness ==
    /\ last.op = "create"
    /\ \E j \in 1..Len(Saved.line_items) :
           /\ (last.data.line_items[j].line_total % CentScale) # 0
           /\ Saved.line_items[j].line_total * CentScale
                  # last.data.line_items[j].line_total

\* The request whose outcome `last` holds priced an invoice: a build, or the
\* materialisation of a recurring schedule.
Priced == last.op \in {"parse", "create", "generate"} /\ last.code = 200

\* The pre-tax subtotal of a sequence of lines: the sum of quantity * price.
RECURSIVE ExactSubtotal(_)
ExactSubtotal(lines) ==
    IF lines = <<>> THEN 0
    ELSE Head(lines).quantity * Head(lines).unit_price + ExactSubtotal(Tail(lines))

\* round(subtotal * rate, 2 dp) in cents, ties to even; 0 for an unset or
\* zero rate.
ExpectedTax(subtotal, rate) ==
    IF rate = None THEN 0
    ELSE IF rate[1] = 0 THEN 0
    ELSE RoundHalfEven(subtotal * rate[1], RateScale * CentScale)

\* C5: the primary and the secondary tax amount are each
\* round(subtotal * rate, 2 dp) of the same pre-tax subtotal, with one rounding
\* mode (ties to even); an unset or zero rate gives 0.  It holds of a build
\* (preview and create), of a recurring materialisation, and of the rows they
\* persist.
C5_TaxesFromSubtotal ==
    Priced =>
        LET subtotal == ExactSubtotal(last.data.line_items)
        IN  /\ last.data.tax_amount =
                   CentScale * ExpectedTax(subtotal, user[1].tax_rate)
            /\ last.data.secondary_tax_amount =
                   CentScale * ExpectedTax(subtotal, user[1].secondary_tax_rate)
            /\ last.op \in {"create", "generate"} =>
                   /\ Saved.tax_amount = ExpectedTax(subtotal, user[1].tax_rate)
                   /\ Saved.secondary_tax_amount =
                          ExpectedTax(subtotal, user[1].secondary_tax_rate)

\* An invoice of subtotal 0.90 under 5 % and 25 %: both taxes are ties
\* (0.045 and 0.225), and the secondary one is not taken from 0.94.
C5_Witness ==
    /\ last.op = "create"
    /\ user[1].tax_rate = Some(500)
    /\ user[1].secondary_tax_rate = Some(2500)
    /\ last.data.subtotal = 9000
    /\ Saved.tax_amount = 4
    /\ Saved.secondary_tax_amount = 22

\* C6: an extracted item whose key matches no active entry contributes to no
\* line, subtotal, tax or total; it is appended to the unmatched list as
\* "<key> (qty: <quantity>)" after the hints of the extraction step; and
\* parse-preview fails only when the rate card has no active entry at all,
\* create never.
C6_UnmatchedCarried ==
    /\ Built =>
           LET u == SelectSeq(last.parsed.line_items, ItemUnmatched)
               m == SelectSeq(last.parsed.line_items, ItemMatches)
           IN  /\ last.data.unmatched_items =
                      last.parsed.unmatched_items \o
                          [j \in 1..Len(u) |->
                              [key |-> u[j].item_key, qty |-> u[j].quantity]]
               /\ Len(last.data.line_items) = Len(m)
               /\ last.data.subtotal = ExactSubtotal(last.data.line_items)
               /\ last.data.total = last.data.subtotal
                      + CentScale * ExpectedTax(last.data.subtotal, user[1].tax_rate)
                      + CentScale * ExpectedTax(last.data.subtotal,
                                                user[1].secondary_tax_rate)
    /\ last.op = "parse" => (last.code = 400 <=> ActiveIds = {})
    /\ last.op = "create" => last.code = 200

\* A preview with a passed-through hint, an unmatched item and a priced line.
C6_Witness ==
    /\ last.op = "parse"
    /\ last.code = 200
    /\ Len(last.parsed.unmatched_items) = 1
    /\ Len(last.data.unmatched_items) = 2
    /\ Len(last.data.line_items) = 1
    /\ last.data.subtotal > 0

\* C4 as stated: every invoice, the preview result and every persisted one,
\* has subtotal = the sum of the line_total of its lines and
\* total = subtotal (rounded to 2 dp) + tax_amount + secondary_tax_amount.
C4_TotalsFromLines ==
    /\ \A i \in 1..Len(invoices) :
           /\ invoices[i].subtotal = SumLineTotals(invoices[i].line_items)
           /\ invoices[i].total = invoices[i].subtotal + invoices[i].tax_amount
                                      + invoices[i].secondary_tax_amount
    /\ (last.op = "parse" /\ last.code = 200) =>
           /\ last.data.subtotal = SumLineTotals(last.data.line_items)
           /\ last.data.total =
                  CentScale * RoundHalfAway(last.data.subtotal, CentScale)
                      + last.data.tax_amount + last.data.secondary_tax_amount

\* C15 as stated: when the tenant has no active rate card entry, parse-preview
\* and create are both rejected with the configuration error (400) and no
\* invoice is persisted or numbered.
C15_NoRateCardRejected ==
    (last.op \in {"parse", "create"} /\ ActiveIds = {}) =>
        /\ last.code = 400
        /\ invoices = <<>>

\* What a build shows of its result: the lines without their back-reference
\* to the rate card, the unmatched list and the totals.
PricedView(data) ==
    [lines |-> [j \in 1..Len(data.line_items) |->
                   LET l == data.line_items[j]
                   IN  <<l.description, l.quantity, l.unit, l.unit_price,
                         l.line_total>>],
     unmatched_items |-> data.unmatched_items,
     subtotal |-> data.subtotal,
     tax_amount |-> data.tax_amount,
     secondary_tax_amount |-> data.secondary_tax_amount,
     total |-> data.total]

\* C20 as stated: two builds of the same extracted items over the same stored
\* rate card and tax rates yield identical line items, unmatched list,
\* subtotal, taxes and total, also when two active entries share a lookup key
\* (in this scenario the extraction, the rate card and the tax rates are the
\* same in every state, so two previews in a row are two such builds).
C20_PricingDeterministic ==
    [][(/\ last.op = "parse" /\ last.code = 200
        /\ last'.op = "parse" /\ last'.code = 200)
           => PricedView(last'.data) = PricedView(last.data)]_vars

----------------------------------------------------------------------------
(* Properties of the rate card scenario (checked under SpecRates).         *)

\* The priced fields of an invoice row and of its line items.
PriceFields(inv) ==
    [lines |-> [j \in 1..Len(inv.line_items) |->
                   <<inv.line_items[j].unit_price, inv.line_items[j].line_total>>],
     subtotal |-> inv.subtotal,
     tax_amount |-> inv.tax_amount,
     secondary_tax_amount |-> inv.secondary_tax_amount,
     total |-> inv.total]

\* C2: prices are locked: no step, in particular no create_rate_item,
\* update_rate_item or delete_rate_item, changes the unit_price or line_total
\* of a persisted line item or the subtotal, taxes or total of its invoice.
C2_PricesLocked ==
    [][\A i \in 1..Len(invoices) :
           /\ i <= Len(invoices')
           /\ PriceFields(invoices'[i]) = PriceFields(invoices[i])]_vars

\* A persisted line whose rate card entry has since been given another rate,
\* and one whose entry has since been retired.
C2_Witness ==
    /\ \E i \in 1..Len(invoices) : \E j \in 1..Len(invoices[i].line_items) :
           LET l == invoices[i].line_items[j]
           IN  l.unit_price # rate_items[l.rate_item_id].rate
    /\ \E i \in 1..Len(invoices) : \E j \in 1..Len(invoices[i].line_items) :
           ~rate_items[invoices[i].line_items[j].rate_item_id].is_active

----------------------------------------------------------------------------
(* Properties of the numbering scenario (checked under SpecNumbering).     *)

\* The sequence part of an invoice number as a number.
SequenceOf(inv) == ParseInt(inv.invoice_number.suffix)

\* C7: the invoice that save_invoice adds carries the current year and, when
\* the tenant has an earlier invoice, the suffix of the most recently created
\* one plus 1 as a decimal padded with zeros to 4 digits; the tenant's first
\* invoice carries the suffix 0001.
C7_NextNumber ==
    [][Len(invoices') = Len(invoices) + 1 =>
          LET new == invoices'[Len(invoices')].invoice_number
          IN  /\ new.year = year
              /\ Len(new.suffix) = 4
              /\ \A k \in 1..4 : new.suffix[k] \in 0..9
              /\ IF invoices = <<>>
                 THEN new.suffix = <<0, 0, 0, 1>>
                 ELSE ParseInt(new.suffix) = SequenceOf(invoices[Len(invoices)]) + 1
      ]_vars

\* The first invoice is <StartYear>-0001 and the second <StartYear>-0002.
C7_Witness ==
    /\ Len(invoices) >= 2
    /\ invoices[1].invoice_number = [year |-> StartYear, suffix |-> <<0, 0, 0, 1>>]
    /\ invoices[2].invoice_number = [year |-> StartYear, suffix |-> <<0, 0, 0, 2>>]

\* C8: the sequence parts of a tenant's invoice numbers strictly increase in
\* creation order, whichever of create_invoice and the recurring schedules
\* saved them and whatever the year, so no two invoices share a number.
C8_SequenceIncreases ==
    \A i, j \in 1..Len(invoices) :
        i < j => /\ SequenceOf(invoices[i]) < SequenceOf(invoices[j])
                 /\ invoices[i].invoice_number # invoices[j].invoice_number

\* An invoice from create_invoice and one from a recurring schedule, saved in
\* different years.
C8_Witness ==
    /\ Len(invoices) >= 2
    /\ invoices[1].invoice_number.year # invoices[2].invoice_number.year
    /\ invoices[1].original_input # invoices[2].original_input

----------------------------------------------------------------------------
(* Properties of the payment scenario (checked under SpecPayments).        *)

\* C9 as stated: after a payment was recorded the invoice is "paid" when its
\* amount_paid has reached its total and "partial" when its amount_paid lies
\* strictly between 0 and the total.
C9_StatusFromAmountPaid ==
    (last.op = "payment" /\ last.code = 200) =>
        LET inv == invoices[last.invoice_id]
        IN  /\ inv.amount_paid >= inv.total => inv.status = "paid"
            /\ (0 < inv.amount_paid /\ inv.amount_paid < inv.total)
                  => inv.status = "partial"

\* C10 as stated: a payment of a zero or negative amount is rejected and
\* changes neither the invoices nor the clients, and no step lowers the
\* amount_paid of an invoice.
C10_AmountPaidNeverDecreases ==
    [][/\ \A i \in 1..Len(invoices) :
              invoices'[i].amount_paid >= invoices[i].amount_paid
       /\ (last'.op = "payment" /\ last' # last /\ last'.amount <= 0)
              => /\ last'.code # 200
                 /\ invoices' = invoices
                 /\ clients' = clients
      ]_vars

----------------------------------------------------------------------------
(* Properties of the ledger scenario (checked under SpecLedger).           *)

\* The sum of amount_paid over the invoices of client c.
RECURSIVE PaidByClient(_, _)
PaidByClient(invs, c) ==
    IF invs = <<>> THEN 0
    ELSE (IF Head(invs).client_id = Some(c) THEN Head(invs).amount_paid ELSE 0)
             + PaidByClient(Tail(invs), c)

\* C11 as stated: in every state the cached total_paid of every client equals
\* the sum of amount_paid over that client's invoices.
C11_TotalPaidIsSum ==
    \A c \in 1..Len(clients) :
        clients[c].total_paid = PaidByClient(invoices, c)

----------------------------------------------------------------------------
(* Properties of get_next_date (checked under SpecDates).                  *)

\* The call of get_next_date that `last` holds was made with frequency f.
NextDateOf(f) == last.op = "get_next_date" /\ last.frequency = f

\* The month that lies k months after month m, and the years passed.
MonthAfter(m, k) == ((m + k - 1) % 12) + 1
YearsAfter(m, k) == (m + k - 1) \div 12

\* The result is the date k months on, on the day min(day, 28).
MonthsOn(k) ==
    /\ last.code = 200
    /\ LET from == last.from_date
           next_date == last.next_date[1]
       IN  /\ ValidDate(next_date)
           /\ next_date.month = MonthAfter(from.month, k)
           /\ next_date.year = from.year + YearsAfter(from.month, k)
           /\ next_date.day = (IF from.day <= 28 THEN from.day ELSE 28)

\* C12: for monthly and quarterly frequency get_next_date returns a valid
\* date 1 resp. 3 months on, the year incremented past December, on the day
\* min(input day, 28); monthly from Jan 31 is Feb 28 of the same year.
C12_MonthlyQuarterly ==
    /\ NextDateOf("monthly") => MonthsOn(1)
    /\ NextDateOf("quarterly") => MonthsOn(3)

\* Monthly from Jan 31 gave Feb 28 of the same year.
C12_Witness ==
    /\ NextDateOf("monthly")
    /\ last.from_date = [year |-> StartYear - 1, month |-> 1, day |-> 31]
    /\ last.next_date = Some([year |-> StartYear - 1, month |-> 2, day |-> 28])

\* C13 as stated: for yearly frequency get_next_date returns, for every valid
\* date, Feb 29 of a leap year included, a valid later date with the same
\* month and day and the year + 1.
C13_Yearly ==
    NextDateOf("yearly") =>
        /\ last.code = 200
        /\ ValidDate(last.next_date[1])
        /\ last.next_date[1] = [last.from_date EXCEPT !.year = @ + 1]

----------------------------------------------------------------------------
(* Properties of the payment terms scenario (checked under SpecTerms).     *)

----------------------------------------------------------------------------
(* Properties of the quantity scenario (checked under SpecQuantity).       *)

\* Every line of the sequence has a positive quantity and no negative total.
PositiveLines(lines) ==
    \A j \in 1..Len(lines) : lines[j].quantity > 0 /\ lines[j].line_total >= 0

\* C16 as stated: an item of zero or negative quantity is rejected before
\* pricing, so no priced line, of a build, of a recurring invoice or of a
\* persisted invoice, has a quantity <= 0 or a negative line_total.
C16_QuantityPositive ==
    /\ Priced => PositiveLines(last.data.line_items)
    /\ \A i \in 1..Len(invoices) : PositiveLines(invoices[i].line_items)

\* The stored rows other than the tenant's are left as they were, and the
\* number the next invoice would get is the same.
StoredRowsUnchanged ==
    /\ rate_items' = rate_items
    /\ clients' = clients
    /\ invoices' = invoices
    /\ schedules' = schedules
    /\ NextInvoiceNumber(LastInvoice(invoices'), year')
           = NextInvoiceNumber(LastInvoice(invoices), year)

\* C19 as stated: a parse-preview step leaves the stored tenants, rate card
\* entries, clients, invoices and line items unchanged and consumes no
\* invoice number, whatever the input and the starting state.
C19_PreviewPersistsNothing ==
    [][last'.op = "parse" => (user' = user /\ StoredRowsUnchanged)]_vars

\* C19 amended: a parse-preview step leaves the rate card entries, clients,
\* invoices and line items unchanged and consumes no invoice number; it
\* leaves an existing tenant unchanged, and when no tenant is stored yet it
\* stores the demo tenant.
C19_PreviewPersistsOnlyDemoUser ==
    [][last'.op = "parse" =>
          /\ StoredRowsUnchanged
          /\ user # None => user' = user
          /\ user = None => user' = Some(DemoUser)
      ]_vars

\* A preview was the first request: the demo tenant is stored, nothing else.
C19_Witness ==
    /\ last.op = "parse"
    /\ user = Some(DemoUser)
    /\ rate_items = <<>>
    /\ clients = <<>>
    /\ invoices = <<>>

----------------------------------------------------------------------------
(* Properties of the settings scenario (checked under SpecSettings).       *)

\* The stored rate is unset or lies in [0, 1].
RateInRange(opt) == opt = None \/ (opt[1] >= 0 /\ opt[1] <= RateScale)

\* C17 as stated: update_settings rejects a tax rate outside [0, 1], so both
\* stored tax rates are unset or within [0, 1] in every state, and no invoice
\* has a negative tax amount or one that exceeds its subtotal.
C17_TaxRatesInRange ==
    /\ user # None => /\ RateInRange(user[1].tax_rate)
                      /\ RateInRange(user[1].secondary_tax_rate)
    /\ \A i \in 1..Len(invoices) :
           /\ invoices[i].tax_amount >= 0
           /\ invoices[i].tax_amount <= invoices[i].subtotal
           /\ invoices[i].secondary_tax_amount >= 0
           /\ invoices[i].secondary_tax_amount <= invoices[i].subtotal

----------------------------------------------------------------------------
(* Properties of the sending scenario (checked under SpecSend).            *)

SentFields(inv) == <<inv.status, inv.sent_at, inv.sent_to>>

\* The request of the response r found its invoice, had a recipient and a
\* configured SMTP user, and the delivery reported success.
Delivered(r) ==
    /\ r.invoice_id \in 1..Len(invoices)
    /\ Recipient(invoices[r.invoice_id], r.to_email) # ""
    /\ r.configured
    /\ r.success

\* C18: a send_invoice_email step sets the status to "sent" and records
\* sent_at and sent_to exactly when the delivery reports success; when the
\* delivery fails, no recipient is available, SMTP is not configured or the
\* invoice is not found it answers an error and leaves every invoice as it
\* was; no other step touches status, sent_at or sent_to.
C18_SentOnSuccessOnly ==
    [][IF last'.op = "send"
       THEN /\ last'.code = 200 <=> Delivered(last')
            /\ IF last'.code = 200
               THEN LET i == last'.invoice_id
                    IN  /\ invoices'[i].status = "sent"
                        /\ invoices'[i].sent_at # None
                        /\ invoices'[i].sent_to =
                               Some(Recipient(invoices[i], last'.to_email))
                        /\ \A k \in 1..Len(invoices) :
                               k # i => invoices'[k] = invoices[k]
               ELSE /\ last'.code \in {400, 404, 500}
                    /\ invoices' = invoices
       ELSE \A k \in 1..Len(invoices) :
                SentFields(invoices'[k]) = SentFields(invoices[k])
      ]_vars

\* An invoice was sent to the address of its client, and another send of it
\* then failed in delivery and left it as it was.
C18_Witness ==
    /\ last.op = "send"
    /\ last.code = 500
    /\ last.to_email = ""
    /\ invoices[last.invoice_id].status = "sent"
    /\ invoices[last.invoice_id].sent_to = Some("a@example.com")

----------------------------------------------------------------------------
(* Concurrent requests.  Every handler is a coroutine with its own session *)
(* and no lock: between the SELECT that loads its rows and its commit      *)
(* another request may run.  A request in flight is an element of          *)
(* `inflight`, holding what its session read; its commit writes what was   *)
(* computed from that.                                                     *)

\* The number of requests that may be in flight together.
MaxInflight == 2

RemoveAt(seq, k) == SubSeq(seq, 1, k - 1) \o SubSeq(seq, k + 1, Len(seq))

\* The in-flight requests of one handler.
InflightOf(op) == {k \in 1..Len(inflight) : inflight[k].op = op}

\* POST /invoices, up to the Invoice(...) object built in save_invoice: the
\* pricing, the SELECT of the latest invoice and the number derived from it.
create_invoice_read(parsed, index, client_id) ==
    /\ Len(inflight) < MaxInflight
    /\ user' = get_or_create_demo_user(user)
    /\ LET invoice_data == build_invoice_from_parsed(parsed, index, user'[1])
       IN  inflight' = Append(inflight,
                              [op |-> "create", parsed |-> parsed,
                               data |-> invoice_data,
                               last_invoice |-> LastInvoice(invoices),
                               row |-> save_invoice(invoice_data, "work",
                                                    client_id, invoices, year)])
    /\ UNCHANGED <<year, rate_items, clients, invoices, schedules, last,
                   extraction>>

\* A commit that would read the latest invoice again and renumber the row.
create_invoice_commit_Renumbered(k) ==
    /\ k \in InflightOf("create")
    /\ invoices' = Append(invoices,
                          [inflight[k].row EXCEPT !.invoice_number =
                               NextInvoiceNumber(LastInvoice(invoices), year)])
    /\ inflight' = RemoveAt(inflight, k)
    /\ last' = [op |-> "create", code |-> 200, parsed |-> inflight[k].parsed,
                data |-> inflight[k].data]
    /\ UNCHANGED <<year, user, rate_items, clients, schedules, extraction>>

\* POST /invoices, the rest of save_invoice: the INSERTs and the commit.  The
\* invoice_number column has no unique constraint, so the row is accepted
\* whatever the table holds by now.
create_invoice_commit(k) ==
    /\ k \in InflightOf("create")
    /\ invoices' = Append(invoices, inflight[k].row)
    /\ inflight' = RemoveAt(inflight, k)
    /\ last' = [op |-> "create", code |-> 200, parsed |-> inflight[k].parsed,
                data |-> inflight[k].data]
    /\ UNCHANGED <<year, user, rate_items, clients, schedules, extraction>>

\* What the flush writes to a column: the new value, or nothing when the
\* attribute was set to the value that was loaded.
Written(new, loaded, current) == IF new = loaded THEN current ELSE new

\* POST /invoices/{invoice_id}/payment, up to the loaded invoice and client.
record_payment_read(invoice_id, amount) ==
    /\ Len(inflight) < MaxInflight
    /\ user' = get_or_create_demo_user(user)
    /\ IF invoice_id \in 1..Len(invoices)
       THEN /\ inflight' =
                   Append(inflight,
                          [op |-> "payment", invoice_id |-> invoice_id,
                           amount |-> amount,
                           invoice |-> invoices[invoice_id],
                           client |->
                               IF invoices[invoice_id].client_id # None
                               THEN Some(clients[invoices[invoice_id].client_id[1]])
                               ELSE None])
            /\ last' = last
       ELSE /\ inflight' = inflight
            /\ last' = [op |-> "payment", code |-> 404,
                        invoice_id |-> invoice_id, amount |-> amount]
    /\ UNCHANGED <<year, rate_items, clients, invoices, schedules, extraction>>

\* POST /invoices/{invoice_id}/payment, the assignments and the commit: the
\* UPDATEs carry the values computed from the loaded rows.
record_payment_commit(k) ==
    /\ k \in InflightOf("payment")
    /\ LET r == inflight[k]
           inv == r.invoice
           paid == PaidAfter(inv, r.amount)
       IN  /\ StoreMoney(paid) \in (0 - MaxPaid)..MaxPaid
           /\ invoices' =
                  [invoices EXCEPT ![r.invoice_id] =
                      [@ EXCEPT !.amount_paid =
                                    IF paid = inv.amount_paid * CentScale
                                    THEN @ ELSE StoreMoney(paid),
                                !.status =
                                    Written(StatusAfter(inv, r.amount),
                                            inv.status, @)]]
           /\ clients' =
                  IF r.client # None /\ r.amount # 0
                  THEN [clients EXCEPT ![inv.client_id[1]].total_paid =
                           StoreMoney(r.client[1].total_paid * CentScale
                                          + r.amount)]
                  ELSE clients
           /\ last' = [op |-> "payment", code |-> 200,
                       invoice_id |-> r.invoice_id, amount |-> r.amount]
    /\ inflight' = RemoveAt(inflight, k)
    /\ UNCHANGED <<year, user, rate_items, schedules, extraction>>

\* The amounts of the concurrent payments (e4 units: 0.30 and 0.47).
ConcurrentAmounts == {3000, 4700}

\* The concurrent-creation scenario: creations of one tenant, each a read
\* step and a commit step, interleaved in every order.
NextCreations ==
    \/ create_rate_item(LedgerRate)
    \/ create_client("a@example.com")
    \/ /\ Len(invoices) + Cardinality(InflightOf("create")) < MaxInvoices
       /\ \E index \in RateIndexes, c \in ClientRefs :
              create_invoice_read(LedgerParsed, index, c)
    \/ \E k \in 1..MaxInflight : create_invoice_commit(k)

SpecCreations == Init /\ [][NextCreations]_vars

\* The concurrent-payment scenario: payments against one invoice, each a read
\* step and a commit step, interleaved in every order.
NextPaying ==
    \/ create_rate_item(LedgerRate)
    \/ create_client("a@example.com")
    \/ /\ Len(invoices) < MaxPriced
       /\ \E index \in RateIndexes, c \in ClientRefs :
              create_invoice(LedgerParsed, index, c)
    \/ \E i \in 1..MaxPriced, amount \in ConcurrentAmounts :
           record_payment_read(i, amount)
    \/ \E k \in 1..MaxInflight : record_payment_commit(k)

SpecPaying == Init /\ [][NextPaying]_vars

----------------------------------------------------------------------------
(* Properties of concurrent requests (SpecCreations and SpecPaying).       *)

\* C21: the row a creation commits carries the number derived from the latest
\* invoice it read, whatever was committed since, and the commit is accepted;
\* so two creations that both read before either commits store the same
\* invoice number (C21_Witness).
C21_NumberFromRead ==
    [][\A k \in InflightOf("create") :
           (inflight' = RemoveAt(inflight, k) /\ last'.op = "create") =>
               /\ Len(invoices') = Len(invoices) + 1
               /\ invoices'[Len(invoices')].invoice_number =
                      NextInvoiceNumber(inflight[k].last_invoice, year)
               /\ \A i \in 1..Len(invoices) : invoices'[i] = invoices[i]]_vars

C21_Witness ==
    /\ inflight = <<>>
    /\ \E i, j \in 1..Len(invoices) :
           /\ i < j
           /\ invoices[i].invoice_number = invoices[j].invoice_number

\* C22 as stated: every committed payment raises the stored amount_paid of
\* its invoice, and the total_paid of the invoice's client, by exactly its
\* amount over what the table held just before the commit (so after payments
\* a and b, in any interleaving, both carry prior + a + b), and leaves the
\* status that corresponds to the resulting amount_paid.
C22_NoLostUpdate ==
    [][(/\ last'.op = "payment"
        /\ last'.code = 200
        /\ Len(inflight') < Len(inflight)) =>
           LET i == last'.invoice_id
               a == last'.amount
           IN  /\ invoices'[i].amount_paid * CentScale =
                      invoices[i].amount_paid * CentScale + a
               /\ invoices[i].client_id # None =>
                      clients'[invoices[i].client_id[1]].total_paid * CentScale =
                          clients[invoices[i].client_id[1]].total_paid * CentScale + a
               /\ invoices'[i].status =
                      IF invoices'[i].amount_paid >= invoices'[i].total
                      THEN "paid" ELSE "partial"]_vars

----------------------------------------------------------------------------
(* The schedule scenario: schedules with and without start and end dates,  *)
(* materialised over a change of year, from the empty database.            *)

\* A start_date after every instant of the scenario, and an end_date before.
FutureStart == [year |-> StartYear + MaxYearsAhead + 1, month |-> 1, day |-> 31]
PastEnd == [year |-> StartYear - 1, month |-> 12, day |-> 31]

StartDates == {None, Some(ScheduleStart), Some(FutureStart)}
EndDates == {None, Some(PastEnd)}

NextSchedules ==
    \/ create_rate_item(LedgerRate)
    \/ create_client("a@example.com")
    \/ \E c \in 1..MaxClients, f \in {"weekly", "monthly"},
          start_date \in StartDates, end_date \in EndDates :
           create_recurring_invoice(c, <<T1>>, f, start_date, end_date)
    \/ /\ Len(invoices) < MaxInvoices
       /\ \E s \in 1..MaxSchedules : generate_invoice_from_recurring(s)
    \/ NewYear

SpecSchedules == Init /\ [][NextSchedules]_vars

\* a < b for dates.
DateBefore(a, b) ==
    \/ a.year < b.year
    \/ a.year = b.year /\ a.month < b.month
    \/ a.year = b.year /\ a.month = b.month /\ a.day < b.day

\* The step materialises an invoice from schedule s.
Materializes(s) ==
    /\ last'.op = "generate"
    /\ Len(invoices') = Len(invoices) + 1
    /\ last'.schedule = s

\* C23 as stated: every materialisation moves the schedule's next_invoice_date
\* to get_next_date(frequency, next_invoice_date), a strictly later date, and
\* leaves the schedule inactive once that date lies after its end_date; so no
\* occurrence is invoiced twice.
C23_NextDueAdvances ==
    [][\A s \in 1..MaxSchedules :
           Materializes(s) =>
               LET next == get_next_date(schedules[s].frequency,
                                         schedules[s].next_invoice_date)
               IN  /\ next # None
                   /\ schedules'[s].next_invoice_date = next[1]
                   /\ DateBefore(schedules[s].next_invoice_date,
                                 schedules'[s].next_invoice_date)
                   /\ (/\ schedules[s].end_date # None
                       /\ DateBefore(schedules[s].end_date[1], next[1]))
                          => ~schedules'[s].is_active]_vars

\* C24 as stated: an invoice is materialised only from a schedule that is
\* active, whose next_invoice_date is not after now and whose end_date, if
\* any, is not before now.
C24_OnlyWhenDue ==
    [][\A s \in 1..MaxSchedules :
           Materializes(s) =>
               /\ schedules[s].is_active
               /\ ~DateBefore(Now, schedules[s].next_invoice_date)
               /\ schedules[s].end_date # None =>
                      ~DateBefore(schedules[s].end_date[1], Now)]_vars

----------------------------------------------------------------------------
(* The tick scenario: one schedule materialised repeatedly while the rate  *)
(* card changes, from the empty database.                                  *)

\* The bodies of the rate card requests: the panel at 0.45 and at 0.60.
TickRates == {LedgerRate, [LedgerRate EXCEPT !.rate = 60]}

NextTicks ==
    \/ \E item \in TickRates : create_rate_item(item)
    \/ \E item_id \in 1..MaxRateItems, item \in TickRates :
           update_rate_item(item_id, item)
    \/ create_client("a@example.com")
    \/ \E c \in 1..MaxClients, t \in {<<T1, T2>>, <<T3>>} :
           create_recurring_invoice(c, t, "monthly", Some(ScheduleStart), None)
    \/ /\ Len(invoices) < MaxInvoices
       /\ \E s \in 1..MaxSchedules : generate_invoice_from_recurring(s)

SpecTicks == Init /\ [][NextTicks]_vars

\* The template items whose rate card row the lookup of the tick returns: the
\* id is a string and names a row of the table.
RECURSIVE FoundItems(_)
FoundItems(items) ==
    IF items = <<>> THEN <<>>
    ELSE IF Head(items).id_is_str /\ Head(items).rate_item_id \in 1..Len(rate_items)
         THEN <<Head(items)>> \o FoundItems(Tail(items))
         ELSE FoundItems(Tail(items))

----------------------------------------------------------------------------
(* Properties of the rate card (SpecPricing, SpecRates, SpecRetire).       *)

\* The item's key, compared without regard to case, is the entry's
\* category.name key or one of the entry's aliases.
ResolvesTo(it, entry) ==
    \/ <<Lower(it.item_key[1]), Lower(it.item_key[2])>> =
           <<Lower(entry.category), Lower(entry.name)>>
    \/ \E k \in 1..Len(entry.aliases) :
           Lower(it.item_key[2]) = Lower(entry.aliases[k])

ItemResolves(it) == \E i \in ActiveIds : ResolvesTo(it, rate_items[i])

\* C26 as stated: an extracted item becomes a priced line exactly when its key
\* resolves to an active entry by case-insensitive equality with the entry's
\* key or with one of its aliases, and the line is priced from such an entry.
C26_CaseInsensitiveOrAlias ==
    Built =>
        LET m == SelectSeq(last.parsed.line_items, ItemResolves)
            lines == last.data.line_items
        IN  /\ Len(lines) = Len(m)
            /\ \A j \in 1..Len(lines) :
                   /\ lines[j].rate_item_id \in ActiveIds
                   /\ ResolvesTo(m[j], rate_items[lines[j].rate_item_id])
                   /\ lines[j].quantity = m[j].quantity

\* C27 as stated: in every state no two active entries of the rate card share
\* their category and normalised name.
C27_UniqueActiveKeys ==
    \A i, j \in ActiveIds :
        i # j => RateKey(rate_items[i]) # RateKey(rate_items[j])

----------------------------------------------------------------------------
(* The retirement scenario: entries retired by delete_rate_item while the  *)
(* rate card is read by every path, from the empty database.               *)

\* GET /rate-items: the active rows of the tenant (the ids of the rows
\* returned; their ORDER BY category, name is not kept).
list_rate_items ==
    /\ user' = get_or_create_demo_user(user)
    /\ last' = [op |-> "list_rate_items", code |-> 200, items |-> ActiveIds]
    /\ UNCHANGED <<year, rate_items, clients, invoices, schedules, extraction,
                   inflight>>

NextRetire ==
    \/ create_rate_item(LedgerRate)
    \/ \E item_id \in 1..MaxRateItems : delete_rate_item(item_id)
    \/ list_rate_items
    \/ create_client("a@example.com")
    \/ \E index \in RateIndexes : parse_work_to_invoice(LedgerParsed, index)
    \/ /\ Len(invoices) < MaxInvoices
       /\ \E index \in RateIndexes : create_invoice(LedgerParsed, index, None)
    \/ \E c \in 1..MaxClients :
           create_recurring_invoice(c, <<T1>>, "monthly", Some(ScheduleStart), None)
    \/ /\ Len(invoices) < MaxInvoices
       /\ \E s \in 1..MaxSchedules : generate_invoice_from_recurring(s)

SpecRetire == Init /\ [][NextRetire]_vars

\* C28 as stated: delete_rate_item keeps the row and only clears its active
\* flag; and no line that parse-preview, create or a recurring tick produces
\* is priced from an entry that is retired at that time, nor does
\* list_rate_items return one.
C28_RetiredNeverRead ==
    [][/\ last'.op = "delete_rate_item" =>
              /\ Len(rate_items') = Len(rate_items)
              /\ \A i \in 1..Len(rate_items) :
                     [rate_items'[i] EXCEPT !.is_active = TRUE] =
                         [rate_items[i] EXCEPT !.is_active = TRUE]
       /\ (last'.op \in {"parse", "create", "generate"} /\ last'.code = 200) =>
              \A j \in 1..Len(last'.data.line_items) :
                  rate_items'[last'.data.line_items[j].rate_item_id].is_active
       /\ last'.op = "list_rate_items" =>
              \A i \in last'.items : rate_items'[i].is_active]_vars

----------------------------------------------------------------------------
(* Properties of the client aggregates (checked under SpecNumbering).      *)

\* The invoices of client c.
InvoicesOf(c) == SelectSeq(invoices, LAMBDA inv : inv.client_id = Some(c))

\* sum(Invoice.total) over a sequence of invoices, in cents.
RECURSIVE TotalOf(_)
TotalOf(invs) ==
    IF invs = <<>> THEN 0 ELSE Head(invs).total + TotalOf(Tail(invs))

\* C29 as stated: in every state the cached total_invoiced of every client is
\* the sum of total over the client's invoices and its invoice_count is their
\* number.
C29_ClientAggregates ==
    \A c \in 1..Len(clients) :
        /\ clients[c].total_invoiced = TotalOf(InvoicesOf(c))
        /\ clients[c].invoice_count = Len(InvoicesOf(c))

----------------------------------------------------------------------------
(* The settlement scenario: one invoice paid in instalments and sent, in   *)
(* every order, from the empty database.                                   *)

NextSettle ==
    \/ create_rate_item(LedgerRate)
    \/ /\ Len(invoices) < MaxPriced
       /\ \E index \in RateIndexes : create_invoice(LedgerParsed, index, None)
    \/ \E i \in 1..MaxPriced, amount \in ConcurrentAmounts :
           record_payment(i, amount)
    \/ \E i \in 1..MaxPriced, to_email \in ToEmails :
           \E configured \in BOOLEAN, success \in BOOLEAN :
               send_invoice_email(i, to_email, configured, success)

SpecSettle == Init /\ [][NextSettle]_vars

\* C30 as stated: no step changes the status of an invoice that is "paid",
\* and none sets a "partial" invoice to "sent" or "draft" while its
\* amount_paid is above 0.
C30_StatusNeverRegresses ==
    [][\A i \in 1..Len(invoices) :
           /\ invoices[i].status = "paid" => invoices'[i].status = "paid"
           /\ (invoices[i].status = "partial" /\ invoices'[i].amount_paid > 0) =>
                  invoices'[i].status \notin {"sent", "draft"}]_vars

====
